---- MODULE Spec2Model ----
(***************************************************************************)
(* microbus: event_bus (registry of type-erased handlers behind a          *)
(* std::shared_mutex) and event_loop (one worker thread, a FIFO queue of   *)
(* tasks, a mutex and two condition variables), from src/src/microbus.hpp. *)
(* Every step of a thread is one action; a lock is held from the action    *)
(* that acquires it to the action that releases it.                        *)
(***************************************************************************)
EXTENDS Integers, Sequences, FiniteSets, TLC

\* ------------------------------------------------------------------ bounds
\* subscribe calls per bus (caps next_id_) of a program that uses buses alone
MaxSubs == 3
\* subscribe calls per bus of a program that also runs an event loop
MaxLoopSubs == 1
\* enqueue_event calls per loop (caps the unbounded queue)
MaxTasks == 2

\* ------------------------------------------------------------ the universe
None == "none"
Buses == {"b1", "b2"}
Names == {"A", "B"}
\* argument-type signatures (the Args... pack of a handler or of a call)
Sigs == {"int", "u64"}
\* caller threads of the host application
Clients == {"t1", "t2"}
\* a loop whose constructor started two threads on the same queue
WorkersTwo == {"w1", "w2"}
\* event_loop() starts exactly one thread running process_event_loop
Workers == {"w1"}
Threads == Clients \cup Workers

VARIABLES
    subscribers_,        \* per bus: event name -> sequence of [id, sig]
    next_id_,            \* per bus: the next subscription id
    mutex_,              \* per bus: [writer, readers] of the shared_mutex
    async_event_queue_,  \* the loop's queue of tasks
    queue_mutex_,        \* owner of queue_mutex_, or None
    queue_condition_,    \* threads blocked in queue_condition_.wait
    stop_flag_,
    wait_mutex_,         \* owner of wait_mutex_, or None
    wait_condition_,     \* threads blocked in wait_condition_.wait
    event_task,          \* per worker: the task it has dequeued, or NoTask
    pc,                  \* per thread: where it is
    loc,                 \* per thread: the arguments and locals of its call
    invoked,             \* per thread: handlers run by its dispatch in progress
    loop_life,           \* "absent" (no loop was constructed), "alive",
                         \* "destroying" (in ~event_loop), "joined"
    env,                 \* what the host program does: the buses, names and
                         \* argument types it uses and how many calls it makes
    \* history variables (never read by an action's guard)
    subscribed,          \* per bus: [id, name] of the subscriptions in force
    issued,              \* per bus: ids returned by subscribe, in order
    enq_log,             \* task ids in the order they were appended to the queue
    exec_log,            \* task ids in the order the worker started them
    done,                \* ids of the tasks whose execution has returned
    failed,              \* ids of the tasks whose execution raised
    stop_mark            \* when stop_flag_ was first set: how many tasks had
                         \* been appended (enq) and how many had returned (done)

vars == <<subscribers_, next_id_, mutex_, async_event_queue_, queue_mutex_,
          queue_condition_, stop_flag_, wait_mutex_, wait_condition_,
          event_task, pc, loc, invoked, loop_life, env,
          subscribed, issued, enq_log, exec_log, done, failed, stop_mark>>

busVars == <<subscribers_, next_id_, mutex_>>
busHist == <<subscribed, issued>>
loopVars == <<async_event_queue_, queue_mutex_, queue_condition_, stop_flag_,
              wait_mutex_, wait_condition_, event_task, loop_life>>
loopHist == <<enq_log, exec_log, done, failed, stop_mark>>

\* an empty std::function<void()>
NoTask == [id |-> 0, bus |-> None, name |-> None, sig |-> None]

NoStop == [enq |-> -1, done |-> -1]

NoLoc == [bus |-> None, name |-> None, sig |-> None, i |-> 0, n |-> 0,
          dtor |-> FALSE, hbus |-> None]

\* a program that constructs buses and one event_loop
LoopEnv == [buses |-> Buses, names |-> {"A"}, sigs |-> {"int"},
            subs |-> MaxLoopSubs, tasks |-> MaxTasks]
\* a program that constructs buses and no event_loop
BusEnv == [buses |-> {"b1"}, names |-> Names, sigs |-> Sigs,
           subs |-> MaxSubs, tasks |-> 0]

InitWith(environment, life) ==
    /\ env = environment
    /\ loop_life = life
    /\ pc = [t \in Threads |-> IF t \in Clients THEN "idle"
                               ELSE IF life = "alive" THEN "w_top" ELSE "absent"]
    /\ subscribers_ = [b \in Buses |-> <<>>]
    /\ next_id_ = [b \in Buses |-> 0]
    /\ mutex_ = [b \in Buses |-> [writer |-> None, readers |-> {}]]
    /\ async_event_queue_ = <<>>
    /\ queue_mutex_ = None
    /\ queue_condition_ = {}
    /\ stop_flag_ = FALSE
    /\ wait_mutex_ = None
    /\ wait_condition_ = {}
    /\ event_task = [w \in Workers |-> NoTask]
    /\ loc = [t \in Threads |-> NoLoc]
    /\ invoked = [t \in Threads |-> <<>>]
    /\ subscribed = [b \in Buses |-> <<>>]
    /\ issued = [b \in Buses |-> <<>>]
    /\ enq_log = <<>>
    /\ exec_log = <<>>
    /\ done = {}
    /\ failed = {}
    /\ stop_mark = NoStop

\* ------------------------------------------------------- std::shared_mutex
\* std::unique_lock lock(mutex_): no other owner of either kind
CanLockUniqueNoReaders(b) == mutex_[b].writer = None
CanLockUnique(b) == mutex_[b].writer = None /\ mutex_[b].readers = {}
\* std::shared_lock lock(mutex_): no exclusive owner
CanLockShared(b) == mutex_[b].writer = None

LockUnique(t, b) == mutex_' = [mutex_ EXCEPT ![b].writer = t]
UnlockUnique(b) == mutex_' = [mutex_ EXCEPT ![b].writer = None]
LockShared(t, b) == mutex_' = [mutex_ EXCEPT ![b].readers = @ \cup {t}]
UnlockSharedLeaks(t, b) == mutex_' = mutex_
UnlockShared(t, b) == mutex_' = [mutex_ EXCEPT ![b].readers = @ \ {t}]

\* ------------------------------------------------------ registry helpers
\* subscribers_.count(event_name)
Count(reg, e) == IF e \in DOMAIN reg THEN 1 ELSE 0

\* subscribers_[event_name].emplace_back(id, handler): operator[] creates the
\* (empty) list when the name is absent
EmplaceBack(reg, e, entry) ==
    IF e \in DOMAIN reg
    THEN [reg EXCEPT ![e] = Append(@, entry)]
    ELSE [k \in DOMAIN reg \cup {e} |-> IF k = e THEN <<entry>> ELSE reg[k]]

\* handlers.erase(remove_if(..., pair.first == id), handlers.end())
RemoveIfKeepsMatch(handlers, id) == SelectSeq(handlers, LAMBDA p : p.id = id)
RemoveIfNotGreater(handlers, id) == SelectSeq(handlers, LAMBDA p : p.id > id)
RemoveIf(handlers, id) == SelectSeq(handlers, LAMBDA p : p.id # id)

\* subscribers_.erase(event_name)
MapEraseLeavesEmpty(reg, e) == [reg EXCEPT ![e] = <<>>]
MapErase(reg, e) == [k \in DOMAIN reg \ {e} |-> reg[k]]

\* subscribers_.clear()
MapClearNothing(reg) == reg
MapClear(reg) == <<>>

\* subscribers_[event_name] : operator[] of the map leaves an existing entry
\* alone and inserts an empty list under a name that is absent
Subscript(reg, e) ==
    IF e \in DOMAIN reg
    THEN reg
    ELSE [k \in DOMAIN reg \cup {e} |-> IF k = e THEN <<>> ELSE reg[k]]

\* the registry after the head of trigger and of trigger_impl:
\* if (subscribers_.count(event_name)) for (... : subscribers_[event_name])
RangedUnguarded(reg, e) == Subscript(reg, e)
Ranged(reg, e) == IF Count(reg, e) # 0 THEN Subscript(reg, e) ELSE reg

\* next_id_++ : the value stored back
PostIncrementStuck(n) == n
PostIncrement(n) == n + 1

\* ------------------------------------------------------ event_bus::subscribe
\* std::unique_lock lock(mutex_). The arguments of the call are read by the
\* body alone, so the model draws them where the body runs.
SubscribeLock(t, b) ==
    /\ UNCHANGED env
    /\ pc[t] = "idle"
    /\ next_id_[b] < env.subs
    /\ CanLockUnique(b)
    /\ LockUnique(t, b)
    /\ pc' = [pc EXCEPT ![t] = "subscribe"]
    /\ loc' = [loc EXCEPT ![t] = [NoLoc EXCEPT !.bus = b]]
    /\ UNCHANGED <<subscribers_, next_id_, invoked>>
    /\ UNCHANGED <<busHist, loopVars, loopHist>>

SubscribeBody(t, e, s) ==
    /\ UNCHANGED env
    /\ pc[t] = "subscribe"
    /\ LET b == loc[t].bus
           id == next_id_[b]
       IN  /\ next_id_' = [next_id_ EXCEPT ![b] = PostIncrement(id)]
           /\ subscribers_' = [subscribers_ EXCEPT ![b] =
                  EmplaceBack(@, e, [id |-> id, sig |-> s])]
           /\ UnlockUnique(b)
           /\ issued' = [issued EXCEPT ![b] = Append(@, id)]
           /\ subscribed' = [subscribed EXCEPT ![b] =
                  Append(@, [id |-> id, name |-> e])]
    /\ pc' = [pc EXCEPT ![t] = "idle"]
    /\ loc' = [loc EXCEPT ![t] = NoLoc]
    /\ UNCHANGED <<invoked, loopVars, loopHist>>

\* ---------------------------------------------------- event_bus::unsubscribe
UnsubscribeLock(t, b) ==
    /\ UNCHANGED env
    /\ pc[t] = "idle"
    /\ CanLockUnique(b)
    /\ LockUnique(t, b)
    /\ pc' = [pc EXCEPT ![t] = "unsubscribe"]
    /\ loc' = [loc EXCEPT ![t] = [NoLoc EXCEPT !.bus = b]]
    /\ UNCHANGED <<subscribers_, next_id_, invoked>>
    /\ UNCHANGED <<busHist, loopVars, loopHist>>

\* the registry after the body of unsubscribe
Unsubscribed(reg, e, id) ==
    IF Count(reg, e) # 0
    THEN LET handlers == RemoveIf(reg[e], id)
         IN  IF handlers = <<>>
             THEN MapErase(reg, e)
             ELSE [reg EXCEPT ![e] = handlers]
    ELSE reg

UnsubscribeBody(t, e, id) ==
    /\ UNCHANGED env
    /\ pc[t] = "unsubscribe"
    /\ LET b == loc[t].bus
       IN  /\ subscribers_' = [subscribers_ EXCEPT ![b] = Unsubscribed(@, e, id)]
           /\ UnlockUnique(b)
           /\ subscribed' = [subscribed EXCEPT ![b] =
                  SelectSeq(@, LAMBDA x : ~(x.id = id /\ x.name = e))]
    /\ pc' = [pc EXCEPT ![t] = "idle"]
    /\ loc' = [loc EXCEPT ![t] = NoLoc]
    /\ UNCHANGED <<next_id_, invoked, issued, loopVars, loopHist>>

\* ---------------------------------------------------------- event_bus::clear
ClearLock(t, b) ==
    /\ UNCHANGED env
    /\ pc[t] = "idle"
    /\ CanLockUnique(b)
    /\ LockUnique(t, b)
    /\ pc' = [pc EXCEPT ![t] = "clear"]
    /\ loc' = [loc EXCEPT ![t] = [NoLoc EXCEPT !.bus = b]]
    /\ UNCHANGED <<subscribers_, next_id_, invoked>>
    /\ UNCHANGED <<busHist, loopVars, loopHist>>

ClearBody(t) ==
    /\ UNCHANGED env
    /\ pc[t] = "clear"
    /\ LET b == loc[t].bus
       IN  /\ subscribers_' = [subscribers_ EXCEPT ![b] = MapClear(@)]
           /\ UnlockUnique(b)
           /\ subscribed' = [subscribed EXCEPT ![b] = <<>>]
    /\ pc' = [pc EXCEPT ![t] = "idle"]
    /\ loc' = [loc EXCEPT ![t] = NoLoc]
    /\ UNCHANGED <<next_id_, invoked, issued, loopVars, loopHist>>

\* ----------------------------------------------- concrete_handler::invoke
\* what the handler's body, which is the subscriber's code, may do once it
\* runs: return, or raise an exception
Behaviours == {"return", "throw"}

\* invoke static_casts the payload to std::tuple<Args...>* of the handler's
\* own Args and applies the function. With the tuple type the caller built
\* the cast is exact. With any other tuple type the behaviour is undefined:
\* the body runs on reinterpreted bytes, or the access faults.
InvokeOutcomes(h, asig) ==
    IF h.sig = asig THEN Behaviours ELSE Behaviours \cup {"crash"}

\* the record of one invocation: which handler and on which payload type
Invocation(h, asig) == [id |-> h.id, hsig |-> h.sig, asig |-> asig]

\* std::terminate, or a fault: the process is gone
Terminate == pc' = [t \in Threads |-> "terminated"]

\* the range-for over subscribers_[event_name] has entries left
MoreHandlers(t) ==
    LET reg == subscribers_[loc[t].bus]
    IN  Count(reg, loc[t].name) # 0 /\ loc[t].i <= Len(reg[loc[t].name])

CurrentHandler(t) == subscribers_[loc[t].bus][loc[t].name][loc[t].i]

\* ---------------------------------------------------- event_bus::trigger
\* std::shared_lock lock(mutex_), the test of count and the range expression
TriggerLock(t, b, e, s) ==
    /\ UNCHANGED env
    /\ pc[t] = "idle"
    /\ CanLockShared(b)
    /\ LockShared(t, b)
    /\ pc' = [pc EXCEPT ![t] = "trigger"]
    /\ loc' = [loc EXCEPT ![t] = [NoLoc EXCEPT !.bus = b, !.name = e,
                                               !.sig = s, !.i = 1]]
    /\ subscribers_' = [subscribers_ EXCEPT ![b] = Ranged(@, e)]
    /\ invoked' = [invoked EXCEPT ![t] = <<>>]
    /\ UNCHANGED <<next_id_, busHist, loopVars, loopHist>>

TriggerInvoke(t) ==
    /\ UNCHANGED env
    /\ pc[t] = "trigger"
    /\ MoreHandlers(t)
    /\ LET h == CurrentHandler(t)
       IN  \E out \in InvokeOutcomes(h, loc[t].sig) :
             \/ /\ out = "return"
                /\ invoked' = [invoked EXCEPT ![t] =
                                  Append(@, Invocation(h, loc[t].sig))]
                /\ loc' = [loc EXCEPT ![t].i = @ + 1]
                /\ UNCHANGED pc
             \/ /\ out = "throw"
                /\ invoked' = [invoked EXCEPT ![t] =
                                  Append(@, Invocation(h, loc[t].sig))]
                /\ pc' = [pc EXCEPT ![t] = "trigger_throw"]
                /\ UNCHANGED loc
             \/ /\ out = "crash"
                /\ Terminate
                /\ UNCHANGED <<invoked, loc>>
    /\ UNCHANGED <<busVars, busHist, loopVars, loopHist>>

\* the loop is over (or the name is absent): the shared_lock is released
TriggerReturn(t) ==
    /\ UNCHANGED env
    /\ pc[t] = "trigger"
    /\ ~MoreHandlers(t)
    /\ UnlockShared(t, loc[t].bus)
    /\ pc' = [pc EXCEPT ![t] = "idle"]
    /\ loc' = [loc EXCEPT ![t] = NoLoc]
    /\ invoked' = [invoked EXCEPT ![t] = <<>>]
    /\ UNCHANGED <<subscribers_, next_id_, busHist, loopVars, loopHist>>

\* a handler raised: the exception unwinds trigger (the shared_lock is
\* released by its destructor) and reaches the caller
TriggerUnwind(t) ==
    /\ UNCHANGED env
    /\ pc[t] = "trigger_throw"
    /\ UnlockShared(t, loc[t].bus)
    /\ pc' = [pc EXCEPT ![t] = "idle"]
    /\ loc' = [loc EXCEPT ![t] = NoLoc]
    /\ invoked' = [invoked EXCEPT ![t] = <<>>]
    /\ UNCHANGED <<subscribers_, next_id_, busHist, loopVars, loopHist>>

\* ------------------------------------------------- std::condition_variable
\* notify_one: one blocked thread (if any) is released
NotifyOne(cv) == IF cv = {} THEN {cv} ELSE {cv \ {w} : w \in cv}
\* notify_all: every blocked thread is released
NotifyAllNone(cv) == cv
NotifyAll(cv) == {}

\* the loop object is alive and no destructor has begun: its methods may be called
Callable == loop_life = "alive"

\* the task enqueue_event builds: the bus, the name and the decayed tuple type
Task(n, b, e, s) == [id |-> n, bus |-> b, name |-> e, sig |-> s]

\* threads inside enqueue_event that hold queue_mutex_ and have yet to append
Enqueueing == {u \in Threads : pc[u] \in {"enqueue", "h_enqueue"}}

\* ------------------------------------------------- event_loop::enqueue_event
\* std::unique_lock lock(queue_mutex_). The task is built from the call's
\* arguments alone, so the model draws them where it is appended.
EnqueueLock(t) ==
    /\ UNCHANGED env
    /\ pc[t] = "idle"
    /\ Callable
    /\ Len(enq_log) + Cardinality(Enqueueing) < env.tasks
    /\ queue_mutex_ = None
    /\ queue_mutex_' = t
    /\ pc' = [pc EXCEPT ![t] = "enqueue"]
    /\ loc' = [loc EXCEPT ![t] = NoLoc]
    /\ UNCHANGED <<async_event_queue_, queue_condition_, stop_flag_, wait_mutex_,
                   wait_condition_, event_task, loop_life>>
    /\ UNCHANGED <<busVars, busHist, loopHist, invoked>>

EnqueueEmplace(t, b, e, s) ==
    /\ UNCHANGED env
    /\ pc[t] = "enqueue"
    /\ LET task == Task(Len(enq_log) + 1, b, e, s)
       IN  /\ async_event_queue_' = Append(async_event_queue_, task)
           /\ enq_log' = Append(enq_log, task.id)
    /\ queue_mutex_' = None
    /\ pc' = [pc EXCEPT ![t] = "enqueue_notify"]
    /\ UNCHANGED <<queue_condition_, stop_flag_, wait_mutex_, wait_condition_,
                   event_task, loop_life, loc, invoked>>
    /\ UNCHANGED <<busVars, busHist, exec_log, done, failed, stop_mark>>

EnqueueNotify(t) ==
    /\ UNCHANGED env
    /\ pc[t] = "enqueue_notify"
    /\ queue_condition_' \in NotifyOne(queue_condition_)
    /\ pc' = [pc EXCEPT ![t] = "idle"]
    /\ loc' = [loc EXCEPT ![t] = NoLoc]
    /\ UNCHANGED <<async_event_queue_, queue_mutex_, stop_flag_, wait_mutex_,
                   wait_condition_, event_task, loop_life, invoked>>
    /\ UNCHANGED <<busVars, busHist, loopHist>>

\* ----------------------------------------------------- event_loop::stop
StopLock(t) ==
    /\ UNCHANGED env
    /\ pc[t] = "idle"
    /\ Callable
    /\ queue_mutex_ = None
    /\ queue_mutex_' = t
    /\ pc' = [pc EXCEPT ![t] = "stop"]
    /\ loc' = [loc EXCEPT ![t] = NoLoc]
    /\ UNCHANGED <<async_event_queue_, queue_condition_, stop_flag_, wait_mutex_,
                   wait_condition_, event_task, loop_life>>
    /\ UNCHANGED <<busVars, busHist, loopHist, invoked>>

StopSet(t) ==
    /\ UNCHANGED env
    /\ pc[t] = "stop"
    /\ stop_flag_' = TRUE
    /\ queue_mutex_' = None
    /\ stop_mark' = IF stop_mark = NoStop
                    THEN [enq |-> Len(enq_log), done |-> Cardinality(done)]
                    ELSE stop_mark
    /\ pc' = [pc EXCEPT ![t] = "stop_notify"]
    /\ UNCHANGED <<async_event_queue_, queue_condition_, wait_mutex_,
                   wait_condition_, event_task, loop_life, loc, invoked>>
    /\ UNCHANGED <<busVars, busHist, enq_log, exec_log, done, failed>>

StopNotify(t) ==
    /\ UNCHANGED env
    /\ pc[t] = "stop_notify"
    /\ queue_condition_' = NotifyAll(queue_condition_)
    /\ pc' = [pc EXCEPT ![t] = IF loc[t].dtor THEN "join" ELSE "idle"]
    /\ UNCHANGED <<async_event_queue_, queue_mutex_, stop_flag_, wait_mutex_,
                   wait_condition_, event_task, loop_life, loc, invoked>>
    /\ UNCHANGED <<busVars, busHist, loopHist>>

\* ----------------------------------------------- event_loop::~event_loop
\* where a client is inside a method of the loop
LoopPcs == {"enqueue", "enqueue_notify", "stop", "stop_notify", "join",
            "wait_pred", "wait_pred_locked", "wait_waiting", "wait_returned"}

\* the owner destroys the loop when no other thread is inside one of its
\* methods; the destructor's first statement is stop()
DtorStopLock(t) ==
    /\ UNCHANGED env
    /\ pc[t] = "idle"
    /\ Callable
    /\ \A u \in Clients : pc[u] \notin LoopPcs
    /\ queue_mutex_ = None
    /\ queue_mutex_' = t
    /\ loop_life' = "destroying"
    /\ pc' = [pc EXCEPT ![t] = "stop"]
    /\ loc' = [loc EXCEPT ![t] = [NoLoc EXCEPT !.dtor = TRUE]]
    /\ UNCHANGED <<async_event_queue_, queue_condition_, stop_flag_, wait_mutex_,
                   wait_condition_, event_task>>
    /\ UNCHANGED <<busVars, busHist, loopHist, invoked>>

\* event_loop_thread_.join() returns when the thread function has returned
DtorJoin(t) ==
    /\ UNCHANGED env
    /\ pc[t] = "join"
    /\ \A w \in Workers : pc[w] = "w_exited"
    /\ loop_life' = "joined"
    /\ pc' = [pc EXCEPT ![t] = "idle"]
    /\ loc' = [loc EXCEPT ![t] = NoLoc]
    /\ UNCHANGED <<async_event_queue_, queue_mutex_, queue_condition_, stop_flag_,
                   wait_mutex_, wait_condition_, event_task>>
    /\ UNCHANGED <<busVars, busHist, loopHist, invoked>>

\* --------------------------------------- event_loop::wait_until_finished
\* std::unique_lock lock(wait_mutex_)
WaitLock(t) ==
    /\ UNCHANGED env
    /\ pc[t] = "idle"
    /\ Callable
    /\ wait_mutex_ = None
    /\ wait_mutex_' = t
    /\ pc' = [pc EXCEPT ![t] = "wait_pred"]
    /\ loc' = [loc EXCEPT ![t] = [NoLoc EXCEPT !.n = Len(enq_log)]]
    /\ UNCHANGED <<async_event_queue_, queue_mutex_, queue_condition_, stop_flag_,
                   wait_condition_, event_task, loop_life>>
    /\ UNCHANGED <<busVars, busHist, loopHist, invoked>>

\* the predicate of the wait: std::unique_lock q_lock(queue_mutex_)
WaitPredLock(t) ==
    /\ UNCHANGED env
    /\ pc[t] = "wait_pred"
    /\ queue_mutex_ = None
    /\ queue_mutex_' = t
    /\ pc' = [pc EXCEPT ![t] = "wait_pred_locked"]
    /\ UNCHANGED <<async_event_queue_, queue_condition_, stop_flag_, wait_mutex_,
                   wait_condition_, event_task, loop_life, loc>>
    /\ UNCHANGED <<busVars, busHist, loopHist, invoked>>

\* return async_event_queue_.empty()
DrainPredicate == async_event_queue_ = <<>>

\* the predicate is true: wait returns, wait_until_finished returns
WaitPredTrue(t) ==
    /\ UNCHANGED env
    /\ pc[t] = "wait_pred_locked"
    /\ DrainPredicate
    /\ queue_mutex_' = None
    /\ wait_mutex_' = None
    /\ pc' = [pc EXCEPT ![t] = "wait_returned"]
    /\ UNCHANGED <<async_event_queue_, queue_condition_, stop_flag_,
                   wait_condition_, event_task, loop_life, loc>>
    /\ UNCHANGED <<busVars, busHist, loopHist, invoked>>

\* the predicate is false: wait releases wait_mutex_ and blocks
WaitPredFalse(t) ==
    /\ UNCHANGED env
    /\ pc[t] = "wait_pred_locked"
    /\ ~DrainPredicate
    /\ queue_mutex_' = None
    /\ wait_mutex_' = None
    /\ wait_condition_' = wait_condition_ \cup {t}
    /\ pc' = [pc EXCEPT ![t] = "wait_waiting"]
    /\ UNCHANGED <<async_event_queue_, queue_condition_, stop_flag_,
                   event_task, loop_life, loc>>
    /\ UNCHANGED <<busVars, busHist, loopHist, invoked>>

\* released by a notification: wait re-acquires wait_mutex_ and tests again
WaitWake(t) ==
    /\ UNCHANGED env
    /\ pc[t] = "wait_waiting"
    /\ t \notin wait_condition_
    /\ wait_mutex_ = None
    /\ wait_mutex_' = t
    /\ pc' = [pc EXCEPT ![t] = "wait_pred"]
    /\ UNCHANGED <<async_event_queue_, queue_mutex_, queue_condition_, stop_flag_,
                   wait_condition_, event_task, loop_life, loc>>
    /\ UNCHANGED <<busVars, busHist, loopHist, invoked>>

\* the caller is back from wait_until_finished
WaitDone(t) ==
    /\ UNCHANGED env
    /\ pc[t] = "wait_returned"
    /\ pc' = [pc EXCEPT ![t] = "idle"]
    /\ loc' = [loc EXCEPT ![t] = NoLoc]
    /\ UNCHANGED <<busVars, busHist, loopVars, loopHist, invoked>>

\* a condition variable may release a blocked thread without a notification
SpuriousWakeup(t) ==
    /\ UNCHANGED env
    /\ t \in queue_condition_ \cup wait_condition_
    /\ queue_condition_' = queue_condition_ \ {t}
    /\ wait_condition_' = wait_condition_ \ {t}
    /\ UNCHANGED <<async_event_queue_, queue_mutex_, stop_flag_, wait_mutex_,
                   event_task, loop_life, pc, loc>>
    /\ UNCHANGED <<busVars, busHist, loopHist, invoked>>

\* ---------------------------------------- event_loop::process_event_loop
\* the predicate of queue_condition_.wait
WaitPredicateStopOnly == stop_flag_
WaitPredicateQueueOnly == async_event_queue_ # <<>>
WaitPredicate == stop_flag_ \/ async_event_queue_ # <<>>

\* if (stop_flag_ && async_event_queue_.empty()) break
BreakConditionStopOnly == stop_flag_
BreakCondition == stop_flag_ /\ async_event_queue_ = <<>>

\* async_event_queue_.front() and the queue after pop()
FrontIsBack(q) == q[Len(q)]
Front(q) == Head(q)
Pop(q) == Tail(q)

\* the owner of queue_mutex_ once the worker has left the block in which its
\* unique_lock is declared, by the closing brace or by break
AfterScopeHeld(w) == w
AfterScope(w) == None

\* std::unique_lock lock(queue_mutex_)
WorkerLock(w) ==
    /\ UNCHANGED env
    /\ pc[w] = "w_top"
    /\ queue_mutex_ = None
    /\ queue_mutex_' = w
    /\ pc' = [pc EXCEPT ![w] = "w_locked"]
    /\ UNCHANGED <<async_event_queue_, queue_condition_, stop_flag_, wait_mutex_,
                   wait_condition_, event_task, loop_life, loc>>
    /\ UNCHANGED <<busVars, busHist, loopHist, invoked>>

\* queue_condition_.wait: the predicate is false, the lock is released and
\* the worker blocks
WorkerWait(w) ==
    /\ UNCHANGED env
    /\ pc[w] = "w_locked"
    /\ ~WaitPredicate
    /\ queue_mutex_' = None
    /\ queue_condition_' = queue_condition_ \cup {w}
    /\ pc' = [pc EXCEPT ![w] = "w_waiting"]
    /\ UNCHANGED <<async_event_queue_, stop_flag_, wait_mutex_,
                   wait_condition_, event_task, loop_life, loc>>
    /\ UNCHANGED <<busVars, busHist, loopHist, invoked>>

\* released by a notification: wait re-acquires queue_mutex_ and tests again
WorkerWake(w) ==
    /\ UNCHANGED env
    /\ pc[w] = "w_waiting"
    /\ w \notin queue_condition_
    /\ queue_mutex_ = None
    /\ queue_mutex_' = w
    /\ pc' = [pc EXCEPT ![w] = "w_locked"]
    /\ UNCHANGED <<async_event_queue_, queue_condition_, stop_flag_, wait_mutex_,
                   wait_condition_, event_task, loop_life, loc>>
    /\ UNCHANGED <<busVars, busHist, loopHist, invoked>>

\* break: the thread function returns
WorkerBreak(w) ==
    /\ UNCHANGED env
    /\ pc[w] = "w_locked"
    /\ WaitPredicate
    /\ BreakCondition
    /\ queue_mutex_' = AfterScope(w)
    /\ pc' = [pc EXCEPT ![w] = "w_exited"]
    /\ UNCHANGED <<async_event_queue_, queue_condition_, stop_flag_, wait_mutex_,
                   wait_condition_, event_task, loop_life, loc>>
    /\ UNCHANGED <<busVars, busHist, loopHist, invoked>>

\* event_task = std::move(front()); pop(); the lock's scope ends
WorkerPop(w) ==
    /\ UNCHANGED env
    /\ pc[w] = "w_locked"
    /\ WaitPredicate
    /\ ~BreakCondition
    /\ async_event_queue_ # <<>>
    /\ event_task' = [event_task EXCEPT ![w] = Front(async_event_queue_)]
    /\ async_event_queue_' = Pop(async_event_queue_)
    /\ queue_mutex_' = AfterScope(w)
    /\ pc' = [pc EXCEPT ![w] = "w_run"]
    /\ UNCHANGED <<queue_condition_, stop_flag_, wait_mutex_,
                   wait_condition_, loop_life, loc>>
    /\ UNCHANGED <<busVars, busHist, loopHist, invoked>>

\* ------------------------- event_task(): event_bus::trigger_impl on the worker
\* the call begins: std::shared_lock lock(mutex_) of the task's bus
TaskLock(w) ==
    /\ UNCHANGED env
    /\ pc[w] = "w_run"
    /\ LET task == event_task[w]
       IN  /\ CanLockShared(task.bus)
           /\ LockShared(w, task.bus)
           /\ loc' = [loc EXCEPT ![w] = [NoLoc EXCEPT !.bus = task.bus,
                         !.name = task.name, !.sig = task.sig, !.i = 1]]
           /\ exec_log' = Append(exec_log, task.id)
           /\ subscribers_' = [subscribers_ EXCEPT ![task.bus] =
                                  Ranged(@, task.name)]
    /\ pc' = [pc EXCEPT ![w] = "w_dispatch"]
    /\ invoked' = [invoked EXCEPT ![w] = <<>>]
    /\ UNCHANGED <<next_id_, busHist, loopVars>>
    /\ UNCHANGED <<enq_log, done, failed, stop_mark>>

\* handler->invoke(args); process_event_loop has no try block, so a handler
\* that raises leaves the thread function by an exception: std::terminate
TaskInvoke(w) ==
    /\ UNCHANGED env
    /\ pc[w] = "w_dispatch"
    /\ MoreHandlers(w)
    /\ LET h == CurrentHandler(w)
       IN  \E out \in InvokeOutcomes(h, loc[w].sig) :
             \/ /\ out = "return"
                /\ invoked' = [invoked EXCEPT ![w] =
                                  Append(@, Invocation(h, loc[w].sig))]
                /\ loc' = [loc EXCEPT ![w].i = @ + 1]
                /\ UNCHANGED <<pc, failed>>
             \/ /\ out = "throw"
                /\ invoked' = [invoked EXCEPT ![w] =
                                  Append(@, Invocation(h, loc[w].sig))]
                /\ failed' = failed \cup {event_task[w].id}
                /\ Terminate
                /\ UNCHANGED loc
             \/ /\ out = "crash"
                /\ Terminate
                /\ UNCHANGED <<invoked, loc, failed>>
    /\ UNCHANGED <<busVars, busHist, loopVars>>
    /\ UNCHANGED <<enq_log, exec_log, done, stop_mark>>

\* trigger_impl returns (the shared_lock is released): event_task() is over
TaskReturn(w) ==
    /\ UNCHANGED env
    /\ pc[w] = "w_dispatch"
    /\ ~MoreHandlers(w)
    /\ UnlockShared(w, loc[w].bus)
    /\ done' = done \cup {event_task[w].id}
    /\ pc' = [pc EXCEPT ![w] = "w_ran"]
    /\ loc' = [loc EXCEPT ![w] = NoLoc]
    /\ invoked' = [invoked EXCEPT ![w] = <<>>]
    /\ UNCHANGED <<subscribers_, next_id_, busHist, loopVars>>
    /\ UNCHANGED <<enq_log, exec_log, failed, stop_mark>>

\* std::unique_lock lock(wait_mutex_)
WorkerNotifyLock(w) ==
    /\ UNCHANGED env
    /\ pc[w] = "w_ran"
    /\ wait_mutex_ = None
    /\ wait_mutex_' = w
    /\ pc' = [pc EXCEPT ![w] = "w_notify"]
    /\ UNCHANGED <<async_event_queue_, queue_mutex_, queue_condition_, stop_flag_,
                   wait_condition_, event_task, loop_life, loc>>
    /\ UNCHANGED <<busVars, busHist, loopHist, invoked>>

\* wait_condition_.notify_all(); the iteration ends and event_task is destroyed
WorkerNotify(w) ==
    /\ UNCHANGED env
    /\ pc[w] = "w_notify"
    /\ wait_condition_' = NotifyAll(wait_condition_)
    /\ wait_mutex_' = None
    /\ event_task' = [event_task EXCEPT ![w] = NoTask]
    /\ pc' = [pc EXCEPT ![w] = "w_top"]
    /\ UNCHANGED <<async_event_queue_, queue_mutex_, queue_condition_, stop_flag_,
                   loop_life, loc>>
    /\ UNCHANGED <<busVars, busHist, loopHist, invoked>>

\* ------------------- a handler whose body calls back into the library
\* handler->invoke(...) of the current entry begins; the dispatching thread
\* is now inside the subscriber's function, still holding the shared lock
HandlerEnter(t) ==
    /\ UNCHANGED env
    /\ pc[t] \in {"trigger", "w_dispatch"}
    /\ MoreHandlers(t)
    /\ pc' = [pc EXCEPT ![t] = "h_body"]
    /\ UNCHANGED <<busVars, busHist, loopVars, loopHist, loc, invoked>>

\* the handler calls enqueue_event on the loop: std::unique_lock lock(queue_mutex_)
HandlerEnqueueLock(t) ==
    /\ UNCHANGED env
    /\ pc[t] = "h_body"
    /\ Callable
    /\ Len(enq_log) + Cardinality(Enqueueing) < env.tasks
    /\ queue_mutex_ = None
    /\ queue_mutex_' = t
    /\ pc' = [pc EXCEPT ![t] = "h_enqueue"]
    /\ UNCHANGED <<async_event_queue_, queue_condition_, stop_flag_, wait_mutex_,
                   wait_condition_, event_task, loop_life, loc>>
    /\ UNCHANGED <<busVars, busHist, loopHist, invoked>>

HandlerEnqueueEmplace(t, b, e, s) ==
    /\ UNCHANGED env
    /\ pc[t] = "h_enqueue"
    /\ LET task == Task(Len(enq_log) + 1, b, e, s)
       IN  /\ async_event_queue_' = Append(async_event_queue_, task)
           /\ enq_log' = Append(enq_log, task.id)
    /\ queue_mutex_' = None
    /\ pc' = [pc EXCEPT ![t] = "h_enqueue_notify"]
    /\ UNCHANGED <<queue_condition_, stop_flag_, wait_mutex_, wait_condition_,
                   event_task, loop_life, loc, invoked>>
    /\ UNCHANGED <<busVars, busHist, exec_log, done, failed, stop_mark>>

\* queue_condition_.notify_one(); enqueue_event returns into the handler
HandlerEnqueueNotify(t) ==
    /\ UNCHANGED env
    /\ pc[t] = "h_enqueue_notify"
    /\ queue_condition_' \in NotifyOne(queue_condition_)
    /\ pc' = [pc EXCEPT ![t] = "h_body"]
    /\ UNCHANGED <<async_event_queue_, queue_mutex_, stop_flag_, wait_mutex_,
                   wait_condition_, event_task, loop_life, loc, invoked>>
    /\ UNCHANGED <<busVars, busHist, loopHist>>

\* the handler calls subscribe, unsubscribe or clear of bus b: each begins
\* with std::unique_lock lock(mutex_), which the thread now asks for
HandlerWriterCall(t, b) ==
    /\ UNCHANGED env
    /\ pc[t] = "h_body"
    /\ pc' = [pc EXCEPT ![t] = "h_lock"]
    /\ loc' = [loc EXCEPT ![t].hbus = b]
    /\ UNCHANGED <<busVars, busHist, loopVars, loopHist, invoked>>

\* the exclusive lock is granted
HandlerWriterLock(t) ==
    /\ UNCHANGED env
    /\ pc[t] = "h_lock"
    /\ CanLockUnique(loc[t].hbus)
    /\ LockUnique(t, loc[t].hbus)
    /\ pc' = [pc EXCEPT ![t] = "h_writer"]
    /\ UNCHANGED <<subscribers_, next_id_, loc, invoked>>
    /\ UNCHANGED <<busHist, loopVars, loopHist>>

\* the body of the call the handler made, and its return into the handler
HandlerWriterBody(t, e, s, id) ==
    /\ UNCHANGED env
    /\ pc[t] = "h_writer"
    /\ LET b == loc[t].hbus
       IN  /\ \/ /\ next_id_[b] < env.subs
                 /\ next_id_' = [next_id_ EXCEPT ![b] = PostIncrement(@)]
                 /\ subscribers_' = [subscribers_ EXCEPT ![b] =
                        EmplaceBack(@, e, [id |-> next_id_[b], sig |-> s])]
                 /\ issued' = [issued EXCEPT ![b] = Append(@, next_id_[b])]
                 /\ subscribed' = [subscribed EXCEPT ![b] =
                        Append(@, [id |-> next_id_[b], name |-> e])]
              \/ /\ subscribers_' = [subscribers_ EXCEPT ![b] =
                        Unsubscribed(@, e, id)]
                 /\ subscribed' = [subscribed EXCEPT ![b] =
                        SelectSeq(@, LAMBDA x : ~(x.id = id /\ x.name = e))]
                 /\ UNCHANGED <<next_id_, issued>>
              \/ /\ subscribers_' = [subscribers_ EXCEPT ![b] = MapClear(@)]
                 /\ subscribed' = [subscribed EXCEPT ![b] = <<>>]
                 /\ UNCHANGED <<next_id_, issued>>
           /\ UnlockUnique(b)
    /\ pc' = [pc EXCEPT ![t] = "h_body"]
    /\ loc' = [loc EXCEPT ![t].hbus = None]
    /\ UNCHANGED <<invoked, loopVars, loopHist>>

\* the handler returns: the range-for goes on to the next entry
HandlerReturn(t) ==
    /\ UNCHANGED env
    /\ pc[t] = "h_body"
    /\ invoked' = [invoked EXCEPT ![t] =
                      Append(@, Invocation(CurrentHandler(t), loc[t].sig))]
    /\ loc' = [loc EXCEPT ![t].i = @ + 1]
    /\ pc' = [pc EXCEPT ![t] = IF t \in Workers THEN "w_dispatch" ELSE "trigger"]
    /\ UNCHANGED <<busVars, busHist, loopVars, loopHist>>

\* ------------------------------------------------------------ the system
\* ids a caller may pass to unsubscribe: issued ones and one never issued
Ids == 0 .. env.subs

Init == InitWith(LoopEnv, "alive")

Next ==
    \/ \E t \in Clients, b \in env.buses : SubscribeLock(t, b)
    \/ \E t \in Clients, e \in env.names, s \in env.sigs : SubscribeBody(t, e, s)
    \/ \E t \in Clients, b \in env.buses : UnsubscribeLock(t, b)
    \/ \E t \in Clients, e \in env.names, id \in Ids : UnsubscribeBody(t, e, id)
    \/ \E t \in Clients, b \in env.buses : ClearLock(t, b)
    \/ \E t \in Clients : ClearBody(t)
    \/ \E t \in Clients, b \in env.buses, e \in env.names, s \in env.sigs :
           TriggerLock(t, b, e, s)
    \/ \E t \in Clients : TriggerInvoke(t)
    \/ \E t \in Clients : TriggerReturn(t)
    \/ \E t \in Clients : TriggerUnwind(t)
    \/ \E t \in Clients : EnqueueLock(t)
    \/ \E t \in Clients, b \in env.buses, e \in env.names, s \in env.sigs :
           EnqueueEmplace(t, b, e, s)
    \/ \E t \in Clients : EnqueueNotify(t)
    \/ \E t \in Clients : StopLock(t)
    \/ \E t \in Clients : StopSet(t)
    \/ \E t \in Clients : StopNotify(t)
    \/ \E t \in Clients : DtorStopLock(t)
    \/ \E t \in Clients : DtorJoin(t)
    \/ \E t \in Clients : WaitLock(t)
    \/ \E t \in Clients : WaitPredLock(t)
    \/ \E t \in Clients : WaitPredTrue(t)
    \/ \E t \in Clients : WaitPredFalse(t)
    \/ \E t \in Clients : WaitWake(t)
    \/ \E t \in Clients : WaitDone(t)
    \/ \E t \in Threads : SpuriousWakeup(t)
    \/ \E w \in Workers : WorkerLock(w)
    \/ \E w \in Workers : WorkerWait(w)
    \/ \E w \in Workers : WorkerWake(w)
    \/ \E w \in Workers : WorkerBreak(w)
    \/ \E w \in Workers : WorkerPop(w)
    \/ \E w \in Workers : TaskLock(w)
    \/ \E w \in Workers : TaskInvoke(w)
    \/ \E w \in Workers : TaskReturn(w)
    \/ \E w \in Workers : WorkerNotifyLock(w)
    \/ \E w \in Workers : WorkerNotify(w)

Spec == Init /\ [][Next]_vars

\* the bus used alone, as in the first two parts of examples.cpp
BusInit == InitWith(BusEnv, "absent")

BusNext ==
    \/ \E t \in Clients, b \in env.buses : SubscribeLock(t, b)
    \/ \E t \in Clients, e \in env.names, s \in env.sigs : SubscribeBody(t, e, s)
    \/ \E t \in Clients, b \in env.buses : UnsubscribeLock(t, b)
    \/ \E t \in Clients, e \in env.names, id \in Ids : UnsubscribeBody(t, e, id)
    \/ \E t \in Clients, b \in env.buses : ClearLock(t, b)
    \/ \E t \in Clients : ClearBody(t)
    \/ \E t \in Clients, b \in env.buses, e \in env.names, s \in env.sigs :
           TriggerLock(t, b, e, s)
    \/ \E t \in Clients : TriggerInvoke(t)
    \/ \E t \in Clients : TriggerReturn(t)
    \/ \E t \in Clients : TriggerUnwind(t)

BusSpec == BusInit /\ [][BusNext]_vars

\* a program with one bus, one loop and two argument types in use
TypedEnv == [buses |-> {"b1"}, names |-> {"A"}, sigs |-> Sigs,
             subs |-> MaxLoopSubs, tasks |-> MaxTasks]

TypedInit == InitWith(TypedEnv, "alive")

TypedSpec == TypedInit /\ [][Next]_vars

\* a program with two buses and one loop that is never stopped, whose
\* handlers may call enqueue_event, subscribe, unsubscribe and clear
ReentrantEnv == [buses |-> Buses, names |-> {"A"}, sigs |-> {"int"},
                 subs |-> MaxLoopSubs, tasks |-> MaxTasks]

ReentrantInit == InitWith(ReentrantEnv, "alive")

ReentrantNext ==
    \/ \E t \in Clients, b \in env.buses : SubscribeLock(t, b)
    \/ \E t \in Clients, e \in env.names, s \in env.sigs : SubscribeBody(t, e, s)
    \/ \E t \in Clients, b \in env.buses : UnsubscribeLock(t, b)
    \/ \E t \in Clients, e \in env.names, id \in Ids : UnsubscribeBody(t, e, id)
    \/ \E t \in Clients, b \in env.buses : ClearLock(t, b)
    \/ \E t \in Clients : ClearBody(t)
    \/ \E t \in Clients, b \in env.buses, e \in env.names, s \in env.sigs :
           TriggerLock(t, b, e, s)
    \/ \E t \in Clients : TriggerReturn(t)
    \/ \E t \in Clients : EnqueueLock(t)
    \/ \E t \in Clients, b \in env.buses, e \in env.names, s \in env.sigs :
           EnqueueEmplace(t, b, e, s)
    \/ \E t \in Clients : EnqueueNotify(t)
    \/ \E t \in Threads : SpuriousWakeup(t)
    \/ \E w \in Workers : WorkerLock(w)
    \/ \E w \in Workers : WorkerWait(w)
    \/ \E w \in Workers : WorkerWake(w)
    \/ \E w \in Workers : WorkerPop(w)
    \/ \E w \in Workers : TaskLock(w)
    \/ \E w \in Workers : TaskReturn(w)
    \/ \E w \in Workers : WorkerNotifyLock(w)
    \/ \E w \in Workers : WorkerNotify(w)
    \/ \E t \in Threads : HandlerEnter(t)
    \/ \E t \in Threads : HandlerEnqueueLock(t)
    \/ \E t \in Threads, b \in env.buses, e \in env.names, s \in env.sigs :
           HandlerEnqueueEmplace(t, b, e, s)
    \/ \E t \in Threads : HandlerEnqueueNotify(t)
    \/ \E t \in Threads, b \in env.buses : HandlerWriterCall(t, b)
    \/ \E t \in Threads : HandlerWriterLock(t)
    \/ \E t \in Threads, e \in env.names, s \in env.sigs, id \in Ids :
           HandlerWriterBody(t, e, s, id)
    \/ \E t \in Threads : HandlerReturn(t)

ReentrantSpec == ReentrantInit /\ [][ReentrantNext]_vars

\* a program with one bus and one loop that is never stopped, whose handlers
\* may call enqueue_event
EnqueueingEnv == [buses |-> {"b1"}, names |-> {"A"}, sigs |-> {"int"},
                  subs |-> MaxLoopSubs, tasks |-> MaxTasks]

EnqueueingInit == InitWith(EnqueueingEnv, "alive")

EnqueueingNext ==
    \/ \E t \in Clients, b \in env.buses : SubscribeLock(t, b)
    \/ \E t \in Clients, e \in env.names, s \in env.sigs : SubscribeBody(t, e, s)
    \/ \E t \in Clients, b \in env.buses : UnsubscribeLock(t, b)
    \/ \E t \in Clients, e \in env.names, id \in Ids : UnsubscribeBody(t, e, id)
    \/ \E t \in Clients, b \in env.buses : ClearLock(t, b)
    \/ \E t \in Clients : ClearBody(t)
    \/ \E t \in Clients, b \in env.buses, e \in env.names, s \in env.sigs :
           TriggerLock(t, b, e, s)
    \/ \E t \in Clients : TriggerReturn(t)
    \/ \E t \in Clients : EnqueueLock(t)
    \/ \E t \in Clients, b \in env.buses, e \in env.names, s \in env.sigs :
           EnqueueEmplace(t, b, e, s)
    \/ \E t \in Clients : EnqueueNotify(t)
    \/ \E t \in Threads : SpuriousWakeup(t)
    \/ \E w \in Workers : WorkerLock(w)
    \/ \E w \in Workers : WorkerWait(w)
    \/ \E w \in Workers : WorkerWake(w)
    \/ \E w \in Workers : WorkerPop(w)
    \/ \E w \in Workers : TaskLock(w)
    \/ \E w \in Workers : TaskReturn(w)
    \/ \E w \in Workers : WorkerNotifyLock(w)
    \/ \E w \in Workers : WorkerNotify(w)
    \/ \E t \in Threads : HandlerEnter(t)
    \/ \E t \in Threads : HandlerEnqueueLock(t)
    \/ \E t \in Threads, b \in env.buses, e \in env.names, s \in env.sigs :
           HandlerEnqueueEmplace(t, b, e, s)
    \/ \E t \in Threads : HandlerEnqueueNotify(t)
    \/ \E t \in Threads : HandlerReturn(t)

\* every step of the worker of that program but two: a handler need not call
\* enqueue_event, and its return is below
EnqueueingWorkerStep(w) ==
    \/ WorkerLock(w) \/ WorkerWait(w) \/ WorkerWake(w) \/ WorkerPop(w)
    \/ TaskLock(w) \/ TaskReturn(w) \/ WorkerNotifyLock(w) \/ WorkerNotify(w)
    \/ HandlerEnter(w)
    \/ \E b \in env.buses, e \in env.names, s \in env.sigs :
           HandlerEnqueueEmplace(w, b, e, s)
    \/ HandlerEnqueueNotify(w)

\* every step by which a caller of that program goes on with a call it has begun
EnqueueingClientContinue(t) ==
    \/ \E e \in env.names, s \in env.sigs : SubscribeBody(t, e, s)
    \/ \E e \in env.names, id \in 0 .. env.subs : UnsubscribeBody(t, e, id)
    \/ ClearBody(t)
    \/ TriggerReturn(t)
    \/ \E b \in env.buses, e \in env.names, s \in env.sigs :
           EnqueueEmplace(t, b, e, s)
    \/ EnqueueNotify(t)
    \/ HandlerEnter(t)
    \/ \E b \in env.buses, e \in env.names, s \in env.sigs :
           HandlerEnqueueEmplace(t, b, e, s)
    \/ HandlerEnqueueNotify(t)

\* the scheduler runs every thread that can run, a thread that asks for a lock
\* again and again gets it, and every handler returns
EnqueueingFairness ==
    /\ \A w \in Workers : SF_vars(EnqueueingWorkerStep(w))
    /\ \A t \in Clients : SF_vars(EnqueueingClientContinue(t))
    /\ \A t \in Threads : SF_vars(HandlerReturn(t))

EnqueueingFairSpec ==
    EnqueueingInit /\ [][EnqueueingNext]_vars /\ EnqueueingFairness

\* ---------------------------------------------------------------- fairness
\* every step of the worker thread
WorkerStep(w) ==
    \/ WorkerLock(w) \/ WorkerWait(w) \/ WorkerWake(w) \/ WorkerBreak(w)
    \/ WorkerPop(w) \/ TaskLock(w) \/ TaskInvoke(w) \/ TaskReturn(w)
    \/ WorkerNotifyLock(w) \/ WorkerNotify(w)

\* every step by which a caller goes on with a call it has begun
ClientContinue(t) ==
    \/ \E e \in env.names, s \in env.sigs : SubscribeBody(t, e, s)
    \/ \E e \in env.names, id \in Ids : UnsubscribeBody(t, e, id)
    \/ ClearBody(t)
    \/ TriggerInvoke(t) \/ TriggerReturn(t) \/ TriggerUnwind(t)
    \/ \E b \in env.buses, e \in env.names, s \in env.sigs :
           EnqueueEmplace(t, b, e, s)
    \/ EnqueueNotify(t)
    \/ StopSet(t) \/ StopNotify(t) \/ DtorJoin(t)
    \/ WaitPredLock(t) \/ WaitPredTrue(t) \/ WaitPredFalse(t)
    \/ WaitWake(t) \/ WaitDone(t)

\* the scheduler runs every thread that can run, and a thread that asks for
\* a lock again and again gets it; a caller need not begin a new call
Fairness ==
    /\ \A w \in Workers : SF_vars(WorkerStep(w))
    /\ \A t \in Clients : SF_vars(ClientContinue(t))

\* a program with one bus, one loop and one argument type in use
FairEnv == [buses |-> {"b1"}, names |-> {"A"}, sigs |-> {"int"},
            subs |-> MaxLoopSubs, tasks |-> MaxTasks]

FairInit == InitWith(FairEnv, "alive")

FairSpec == FairInit /\ [][Next]_vars /\ Fairness

\* ------------------------------------------------------------ observations
Range(f) == {f[k] : k \in DOMAIN f}

\* the process has been terminated (std::terminate or a fault)
Terminated == \A t \in Threads : pc[t] = "terminated"

\* the worker thread has left process_event_loop
WorkerExited == \A w \in Workers : pc[w] = "w_exited"

\* where a thread is inside a handler that calls back into the library
HandlerPcs == {"h_body", "h_enqueue", "h_enqueue_notify", "h_lock", "h_writer"}

\* a dispatch loop of trigger or trigger_impl is in progress in thread t
Dispatching(t) ==
    pc[t] \in {"trigger", "trigger_throw", "w_dispatch"} \cup HandlerPcs

\* the thread is inside subscribe, unsubscribe or clear of bus b, past the lock
Writers(b) ==
    {t \in Threads :
         \/ (pc[t] \in {"subscribe", "unsubscribe", "clear"} /\ loc[t].bus = b)
         \/ (pc[t] = "h_writer" /\ loc[t].hbus = b)}

\* the thread is inside trigger or trigger_impl of bus b, past the lock
Readers(b) == {t \in Threads : Dispatching(t) /\ loc[t].bus = b}

\* ids of the handlers thread t's dispatch has run so far, in order
InvokedIds(t) == [k \in 1 .. Len(invoked[t]) |-> invoked[t][k].id]

\* ids of the subscriptions in force on bus b under name e, in the order of
\* their subscribe calls
SubscribedIds(b, e) ==
    LET sel == SelectSeq(subscribed[b], LAMBDA x : x.name = e)
    IN  [k \in 1 .. Len(sel) |-> sel[k].id]

\* ids the registry of bus b holds under name e, in list order
RegisteredIds(b, e) ==
    IF e \in DOMAIN subscribers_[b]
    THEN [k \in 1 .. Len(subscribers_[b][e]) |-> subscribers_[b][e][k].id]
    ELSE <<>>

\* the thread is inside a handler, inside a dispatch of bus b = loc[t].bus
\* whose shared lock it holds, and asks for the exclusive lock of that bus
SelfDeadlocked(t) == pc[t] = "h_lock" /\ loc[t].hbus = loc[t].bus

\* tasks the worker has started and that have neither returned nor raised
Running == {i \in Range(exec_log) : i \notin done \cup failed}

\* ------------------------------------------------------------------ claims

\* C1: whatever subscribe, unsubscribe and clear calls came before, a trigger
\* on a name runs the handlers in force under that name and no other: at
\* every moment of the dispatch the handlers run so far are the first ones
\* of that list, in subscription order, and when the loop ends they are the
\* whole list, each once.
C1_TriggerInvokesSubscribed ==
    \A t \in Clients :
        pc[t] = "trigger" =>
            LET want == SubscribedIds(loc[t].bus, loc[t].name)
            IN  /\ Len(invoked[t]) <= Len(want)
                /\ InvokedIds(t) = SubSeq(want, 1, Len(invoked[t]))
                /\ (~MoreHandlers(t) => InvokedIds(t) = want)

\* a trigger has run handlers 0 and 2, in that order, and not handler 1,
\* which is in force under the other name
C1_Witness ==
    \E t \in Clients :
        /\ pc[t] = "trigger"
        /\ ~MoreHandlers(t)
        /\ InvokedIds(t) = <<0, 2>>
        /\ \E x \in Range(subscribed[loc[t].bus]) :
               x.id = 1 /\ x.name # loc[t].name

\* C2: wait_until_finished returns only when every task enqueued before the
\* call has completed execution.
C2_WaitReturnsAfterCompletion ==
    \A t \in Clients :
        pc[t] = "wait_returned" => \A i \in 1 .. loc[t].n : i \in done

\* C3: the tasks the worker has started are a prefix of the tasks appended to
\* the queue: FIFO order, none twice, none skipped.
C3_FifoPrefix ==
    /\ Len(exec_log) <= Len(enq_log)
    /\ exec_log = SubSeq(enq_log, 1, Len(exec_log))

\* two producers are inside enqueue_event at once, both have appended; the
\* first task, for bus b1, is executing and the second, for b2, is queued
C3_Witness ==
    /\ \A t \in Clients : pc[t] = "enqueue_notify"
    /\ exec_log = <<1>>
    /\ \E w \in Workers : pc[w] = "w_dispatch" /\ event_task[w].bus = "b1"
    /\ Len(async_event_queue_) = 1
    /\ async_event_queue_[1].id = 2
    /\ async_event_queue_[1].bus = "b2"

\* C4: when the worker has left its loop every task appended before stop()
\* set the flag has completed, and once the destructor's join has returned
\* the worker is gone, holds no task, and every started task has completed.
C4_GracefulDrain ==
    /\ WorkerExited => \A i \in 1 .. stop_mark.enq : i \in done
    /\ loop_life = "joined" =>
           /\ WorkerExited
           /\ \A w \in Workers : event_task[w] = NoTask
           /\ Range(exec_log) \subseteq done

\* stop() found two tasks appended and none completed; the loop has been
\* destroyed and both have completed
C4_Witness ==
    /\ loop_life = "joined"
    /\ stop_mark = [enq |-> 2, done |-> 0]
    /\ done = {1, 2}

\* C5: on each bus the ids subscribe has returned begin with 0 and strictly
\* increase, so none is returned twice, whatever unsubscribe and clear did
\* in between.
C5_IdsStrictlyIncreasing ==
    \A b \in Buses :
        /\ \A j, k \in 1 .. Len(issued[b]) :
               j < k => issued[b][j] < issued[b][k]
        /\ issued[b] # <<>> => issued[b][1] = 0

\* three ids were returned on a bus and only the last subscription is still
\* in force
C5_Witness ==
    \E b \in Buses :
        /\ Len(issued[b]) = 3
        /\ Len(subscribed[b]) = 1
        /\ subscribed[b][1].id = 2

\* C6: at most one task of the loop is executing at any moment.
C6_OneTaskAtATime == Cardinality(Running) <= 1

\* a task is executing while the next one, for the other bus, waits in the
\* queue
C6_Witness ==
    \E w \in Workers :
        /\ pc[w] = "w_dispatch"
        /\ Running = {event_task[w].id}
        /\ async_event_queue_ # <<>>
        /\ async_event_queue_[1].bus # event_task[w].bus

\* C7: on each bus a thread inside subscribe, unsubscribe or clear excludes
\* every other such thread and every dispatching thread, and what a dispatch
\* has run so far is always the beginning of the list the registry holds
\* under its name, so that the registry a dispatch sees is the one it started
\* with; dispatches do not exclude each other.
C7_DispatchAtomic ==
    /\ \A b \in Buses :
           /\ Cardinality(Writers(b)) <= 1
           /\ Writers(b) # {} => Readers(b) = {}
    /\ \A t \in Threads :
           Dispatching(t) =>
               LET have == RegisteredIds(loc[t].bus, loc[t].name)
               IN  /\ Len(invoked[t]) <= Len(have)
                   /\ InvokedIds(t) = SubSeq(have, 1, Len(invoked[t]))

\* a caller's trigger and the worker's trigger_impl are dispatching on the
\* same bus at the same time, and each has run a handler
C7_Witness ==
    \E t \in Clients, w \in Workers :
        /\ pc[t] = "trigger" /\ pc[w] = "w_dispatch"
        /\ loc[t].bus = loc[w].bus
        /\ Len(invoked[t]) = 1 /\ Len(invoked[w]) = 1

C9_WorkerSurvivesFailure == failed # {} => ~Terminated

\* C10: no handler runs on a payload of another argument-type signature than
\* its own.
C10_NoMismatchedInvocation ==
    \A t \in Threads :
        \A k \in 1 .. Len(invoked[t]) :
            invoked[t][k].hsig = invoked[t][k].asig

\* C11: unsubscribe(event_name, id) where the name is absent from the
\* registry, or no entry under the name carries the id (never issued, already
\* removed, or registered under another name), changes neither the registry
\* nor the id counter of any bus, and returns normally.
C11_UnsubscribeUnknownIsNoOp ==
    [][\A t \in Clients, e \in Names, id \in 0 .. MaxSubs :
           (/\ UnsubscribeBody(t, e, id)
            /\ id \notin Range(RegisteredIds(loc[t].bus, e)))
               => /\ subscribers_' = subscribers_
                  /\ next_id_' = next_id_
                  /\ pc'[t] = "idle"]_vars

\* a caller is inside unsubscribe, past the lock, on a bus where "A" holds
\* id 0 alone and id 1 is registered under "B", and its call may be
\* unsubscribe("A", 1)
C11_Witness ==
    \E t \in Clients, b \in Buses :
        /\ pc[t] = "unsubscribe" /\ loc[t].bus = b
        /\ RegisteredIds(b, "A") = <<0>>
        /\ RegisteredIds(b, "B") = <<1>>
        /\ ENABLED UnsubscribeBody(t, "A", 1)

\* C12: a trigger or a trigger_impl on a name that has no subscribers runs
\* no handler and raises nothing, and no step of it changes the registry
\* (no empty entry appears under the name) or the id counter.
C12_TriggerAbsentIsNoOp ==
    /\ [](\A t \in Threads :
              (Dispatching(t) /\ RegisteredIds(loc[t].bus, loc[t].name) = <<>>)
                  => /\ invoked[t] = <<>>
                     /\ pc[t] # "trigger_throw"
                     /\ loc[t].name \notin DOMAIN subscribers_[loc[t].bus])
    /\ [][\A t \in Threads :
              LET call == IF Dispatching(t) THEN loc[t] ELSE loc'[t]
              IN  (/\ Dispatching(t) \/ Dispatching(t)'
                   /\ pc'[t] # pc[t] /\ ~Terminated'
                   /\ RegisteredIds(call.bus, call.name) = <<>>)
                      => /\ subscribers_' = subscribers_
                         /\ next_id_' = next_id_
                         /\ pc'[t] \in {"trigger", "w_dispatch", "idle",
                                        "w_ran"}]_vars

\* a caller's trigger and the worker's trigger_impl are both past the lock
\* on a bus that has no entry at all, and have nothing to run
C12_Witness ==
    \E t \in Clients, w \in Workers :
        /\ pc[t] = "trigger" /\ pc[w] = "w_dispatch"
        /\ loc[t].bus = loc[w].bus
        /\ subscribers_[loc[t].bus] = <<>>
        /\ ~MoreHandlers(t) /\ ~MoreHandlers(w)

\* C13: clear() leaves the registry of its bus empty (and the id counter as
\* it was); an empty registry stays empty until a subscribe on that bus; a
\* dispatch that finds no entry under its name runs nothing, and a dispatch
\* that has come to its end has run the whole list the registry holds under
\* its name.
C13_ClearRemovesAll ==
    /\ [][/\ \A t \in Clients :
                 ClearBody(t) => /\ subscribers_'[loc[t].bus] = <<>>
                                 /\ next_id_' = next_id_
          /\ \A b \in Buses :
                 (subscribers_[b] = <<>> /\ subscribers_'[b] # <<>>) =>
                     \E t \in Clients, e \in Names, s \in Sigs :
                         SubscribeBody(t, e, s) /\ loc[t].bus = b]_vars
    /\ [](\A t \in Threads :
              (pc[t] \in {"trigger", "w_dispatch"} /\ ~MoreHandlers(t)) =>
                  InvokedIds(t) = RegisteredIds(loc[t].bus, loc[t].name))

\* a caller is inside clear, past the lock, on a bus whose registry holds
\* three subscriptions under two names
C13_Witness ==
    \E t \in Clients, b \in Buses :
        /\ pc[t] = "clear" /\ loc[t].bus = b
        /\ DOMAIN subscribers_[b] = Names
        /\ Len(subscribed[b]) = 3
        /\ ENABLED ClearBody(t)

\* C14: every event name present in a registry maps to a non-empty list, and
\* the unsubscribe that removes the last entry of a name removes the name in
\* the same step.
C14_NoEmptyList ==
    /\ [](\A b \in Buses :
              \A e \in DOMAIN subscribers_[b] : subscribers_[b][e] # <<>>)
    /\ [][\A t \in Clients, e \in Names, id \in 0 .. MaxSubs :
              (UnsubscribeBody(t, e, id)
                   /\ RegisteredIds(loc[t].bus, e) = <<id>>)
                  => e \notin DOMAIN subscribers_'[loc[t].bus]]_vars

\* the one subscription a bus had is gone and the name with it, and the
\* worker's trigger_impl on that bus is past its lock and its test of count
C14_Witness ==
    \E b \in Buses, w \in Workers :
        /\ issued[b] = <<0>>
        /\ subscribers_[b] = <<>>
        /\ pc[w] = "w_dispatch" /\ loc[w].bus = b

\* a caller is inside wait_until_finished and has not yet returned from it
Waiting(t) == pc[t] \in {"wait_pred", "wait_pred_locked", "wait_waiting"}

\* C15: when a handler raises during a direct trigger, the handlers run by
\* that call are the list's first ones up to the failing one, in order, and
\* none after it; the exception then reaches the caller with the shared lock
\* released, the registry and the id counter as they were, so that the
\* exclusive lock can be taken again once no other dispatch holds the mutex.
C15_TriggerFailurePropagates ==
    /\ [](\A t \in Clients :
              pc[t] = "trigger_throw" =>
                  LET have == RegisteredIds(loc[t].bus, loc[t].name)
                  IN  /\ invoked[t] # <<>>
                      /\ Len(invoked[t]) <= Len(have)
                      /\ InvokedIds(t) = SubSeq(have, 1, Len(invoked[t]))
                      /\ t \in mutex_[loc[t].bus].readers)
    /\ [][\A t \in Clients :
              (pc[t] = "trigger_throw" /\ ~Terminated') =>
                  \/ pc'[t] = "trigger_throw" /\ invoked'[t] = invoked[t]
                  \/ /\ pc'[t] = "idle"
                     /\ subscribers_' = subscribers_
                     /\ next_id_' = next_id_
                     /\ t \notin mutex_'[loc[t].bus].readers
                     /\ mutex_[loc[t].bus].readers = {t}
                            => mutex_'[loc[t].bus] =
                                   [writer |-> None, readers |-> {}]]_vars

\* the second of three handlers under a name has raised: the first two were
\* run, the third was not
C15_Witness ==
    \E t \in Clients :
        /\ pc[t] = "trigger_throw"
        /\ RegisteredIds(loc[t].bus, loc[t].name) = <<0, 1, 2>>
        /\ InvokedIds(t) = <<0, 1>>

\* C16: the step by which the worker leaves its loop is taken with the stop
\* flag set and the queue empty, under queue_mutex_; and the stop flag, once
\* set, stays set.
C16_WorkerExitCondition ==
    /\ [](WorkerExited => stop_flag_)
    /\ [][/\ \A w \in Workers :
                 (pc[w] # "w_exited" /\ pc'[w] = "w_exited") =>
                     /\ stop_flag_ /\ async_event_queue_ = <<>>
                     /\ queue_mutex_ = w
                     /\ stop_flag_' /\ async_event_queue_' = <<>>
          /\ stop_flag_ => stop_flag_']_vars

\* stop() found one task appended and not completed; the worker has completed
\* it and has left its loop, the loop object being still alive
C16_Witness ==
    /\ WorkerExited
    /\ loop_life = "alive"
    /\ stop_mark = [enq |-> 1, done |-> 0]
    /\ done = {1}
    /\ async_event_queue_ = <<>>

\* C17: once the stop flag is set the worker eventually leaves its loop, and
\* a destructor that has reached join eventually returns from it (unless a
\* task raised, which ends the process).
C17_StopTerminatesWorker ==
    /\ [](stop_flag_ => <>(WorkerExited \/ Terminated))
    /\ \A t \in Clients :
           [](pc[t] = "join" => <>(loop_life = "joined" \/ Terminated))

\* the destructor's stop() holds queue_mutex_ with the flag already set by an
\* earlier stop(), while the worker is running a task
C17_Witness ==
    \E t \in Clients, w \in Workers :
        /\ pc[t] = "stop" /\ loc[t].dtor
        /\ stop_flag_
        /\ pc[w] = "w_dispatch"

\* C19: a caller inside wait_until_finished while the worker has not left its
\* loop eventually returns, unless a task is appended after the call began
\* (or a task raised, which ends the process); and a caller whose test finds
\* the queue empty returns without blocking.
C19_WaitEventuallyReturns ==
    /\ \A t \in Clients :
           []((Waiting(t) /\ ~WorkerExited) =>
                  <>(\/ pc[t] = "wait_returned"
                     \/ Terminated
                     \/ Len(enq_log) > loc[t].n))
    /\ [][\A t \in Clients :
              (pc[t] = "wait_pred_locked" /\ async_event_queue_ = <<>>) =>
                  pc'[t] \in {"wait_pred_locked", "wait_returned",
                              "terminated"}]_vars

\* a caller is blocked in wait_condition_.wait, the queue is empty, and the
\* worker holds wait_mutex_ and is about to notify
C19_Witness ==
    \E t \in Clients, w \in Workers :
        /\ pc[t] = "wait_waiting" /\ t \in wait_condition_
        /\ pc[w] = "w_notify"
        /\ async_event_queue_ = <<>>

\* C18: while the worker executes a task it owns neither queue_mutex_ nor
\* wait_mutex_ (except queue_mutex_ inside an enqueue_event call that the
\* task's own handler makes), so a thread that holds queue_mutex_ in
\* enqueue_event, the handler on the worker included, appends and goes on
\* while the task runs; and every task appended is eventually executed to
\* completion.
C18_NoLoopMutexWhileRunning ==
    /\ [](\A w \in Workers :
              /\ pc[w] \in {"w_run", "w_dispatch", "h_body", "h_enqueue_notify"}
                     => queue_mutex_ # w /\ wait_mutex_ # w
              /\ pc[w] = "h_enqueue" => wait_mutex_ # w)
    /\ \A t \in Threads :
           [](pc[t] \in {"enqueue", "h_enqueue"} =>
                  <>(pc[t] \in {"enqueue_notify", "h_enqueue_notify"}))
    /\ \A i \in 1 .. MaxTasks :
           [](i \in Range(enq_log) => <>(i \in done))

\* the handler run by task 1 on the worker has itself appended task 2, which
\* is queued, and is about to notify, task 1 still executing
C18_Witness ==
    \E w \in Workers :
        /\ pc[w] = "h_enqueue_notify"
        /\ event_task[w].id = 1
        /\ Running = {1}
        /\ Len(async_event_queue_) = 1
        /\ async_event_queue_[1].id = 2

\* C20: a thread that, from inside a handler, asks for the exclusive lock of
\* the bus whose dispatch runs that handler holds that bus's shared lock, so
\* the exclusive lock cannot be granted; the thread never moves again: its
\* dispatch runs no further handler and does not return and, on the worker,
\* no other task is ever started.
C20_ReentrantWriterBlocks ==
    /\ [](\A t \in Threads :
              SelfDeadlocked(t) =>
                  /\ t \in mutex_[loc[t].bus].readers
                  /\ ~CanLockUnique(loc[t].hbus)
                  /\ ~ENABLED HandlerWriterLock(t))
    /\ [][\A t \in Threads :
              SelfDeadlocked(t) =>
                  /\ pc'[t] = pc[t] /\ loc'[t] = loc[t]
                  /\ invoked'[t] = invoked[t]
                  /\ t \in mutex_'[loc[t].bus].readers
                  /\ t \in Workers =>
                         exec_log' = exec_log /\ event_task' = event_task]_vars

\* the worker is blocked inside the handler of task 1 with task 2 queued
\* behind it, and a caller is blocked the same way inside its own trigger
C20_Witness ==
    \E w \in Workers, t \in Clients :
        /\ SelfDeadlocked(w)
        /\ event_task[w].id = 1
        /\ async_event_queue_ # <<>>
        /\ SelfDeadlocked(t)

====
